---- MODULE Spec2Model ----
(***************************************************************************)
(* tmp_update_index.py: read index.ts as text, remove three literal lines  *)
(* with str.replace, write the text back and print a confirmation.         *)
(* Text is a sequence of one-character strings; the file holds the         *)
(* characters as stored (line endings as they are on disk).                *)
(***************************************************************************)
EXTENDS Integers, Sequences, FiniteSets, TLC

LF == "\n"
CR == "\r"

(* ---------------- the literals of the script ---------------- *)

\* line 6, first argument of replace
ImportLine ==
    <<"i", "m", "p", "o", "r", "t", " ", "{", " ", "s", "t", "a", "r", "t", "S", "e", "p",
      "o", "l", "i", "a", "W", "a", "t", "c", "h", "e", "r", " ", "}", " ", "f", "r", "o",
      "m", " ", "'", ".", "/", "s", "e", "p", "o", "l", "i", "a", "W", "a", "t", "c", "h",
      "e", "r", ".", "j", "s", "'", LF>>

\* line 7, first argument of replace
ConstLine ==
    <<" ", " ", "c", "o", "n", "s", "t", " ", "s", "t", "o", "p", "S", "e", "p", "o", "l",
      "i", "a", "W", "a", "t", "c", "h", "e", "r", " ", "=", " ", "s", "t", "a", "r", "t",
      "S", "e", "p", "o", "l", "i", "a", "W", "a", "t", "c", "h", "e", "r", "(", "c", "t",
      "x", ",", " ", "s", "t", "o", "r", "e", ")", LF>>

\* line 8, first argument of replace
CallLine ==
    <<" ", " ", " ", " ", "s", "t", "o", "p", "S", "e", "p", "o", "l", "i", "a", "W", "a",
      "t", "c", "h", "e", "r", "(", ")", LF>>

\* line 11, the argument of print
Confirmation == "updated index.ts"

Patterns == <<ImportLine, ConstLine, CallLine>>

(* ---------------- str.replace(old, "") and str.count ---------------- *)

\* old occurs in s at position i
IsAt(s, old, i) ==
    /\ i + Len(old) - 1 <= Len(s)
    /\ s[i] = old[1]
    /\ SubSeq(s, i, i + Len(old) - 1) = old

\* the positions from i on where old occurs
MatchesFrom(s, old, i) == { j \in i..Len(s) : IsAt(s, old, j) }

Least(S) == CHOOSE j \in S : \A k \in S : j <= k

RECURSIVE ReplaceFrom(_, _, _, _)
\* one left-to-right pass from position i over the occurrences all: the text
\* up to the next occurrence is kept, the occurrence is dropped, and the scan
\* resumes right after it
ReplaceFrom(s, old, i, all) ==
    LET m == { j \in all : j >= i }
    IN  IF m = {} THEN SubSeq(s, i, Len(s))
        ELSE SubSeq(s, i, Least(m) - 1) \o ReplaceFrom(s, old, Least(m) + Len(old), all)

\* a replace that stops after the first occurrence (count = 1)
ReplaceOnce(s, old) ==
    LET m == MatchesFrom(s, old, 1)
    IN  IF m = {} THEN s
        ELSE SubSeq(s, 1, Least(m) - 1) \o SubSeq(s, Least(m) + Len(old), Len(s))

RECURSIVE OverrunFrom(_, _, _, _)
OverrunFrom(s, old, i, all) ==
    LET m == { j \in all : j >= i }
    IN  IF m = {} THEN SubSeq(s, i, Len(s))
        ELSE SubSeq(s, i, Least(m) - 1)
                 \o OverrunFrom(s, old, Least(m) + Len(old) + 1, all)

\* a replace that resumes one character too far after each occurrence
ReplaceOverrun(s, old) == OverrunFrom(s, old, 1, MatchesFrom(s, old, 1))

\* text.replace(old, "")
Replace(s, old) == ReplaceFrom(s, old, 1, MatchesFrom(s, old, 1))

RECURSIVE CountFrom(_, _, _)
CountFrom(old, i, all) ==
    LET m == { j \in all : j >= i }
    IN  IF m = {} THEN 0 ELSE 1 + CountFrom(old, Least(m) + Len(old), all)

\* the number of non-overlapping occurrences replace finds (str.count)
Count(s, old) == CountFrom(old, 1, MatchesFrom(s, old, 1))

\* old occurs somewhere in s
Occurs(s, old) == MatchesFrom(s, old, 1) # {}

(* ---------------- Path.read_text / Path.write_text ---------------- *)

\* text mode with newline=None on input: CR LF and a lone CR both become LF,
\* that is, every CR reads as LF and an LF right after a CR is dropped
Translate(b) ==
    LET kept == SelectSeq([i \in 1..Len(b) |-> i],
                          LAMBDA i : ~(b[i] = LF /\ i > 1 /\ b[i - 1] = CR))
    IN  [k \in 1..Len(kept) |-> IF b[kept[k]] = CR THEN LF ELSE b[kept[k]]]

\* path.read_text(): the stored characters, line endings translated
ReadText(stored) == Translate(stored)

\* os.linesep of the POSIX host the path /home/ubuntu/... is on
LineSep == <<LF>>

RECURSIVE Untranslate(_, _)
\* text mode with newline=None on output: every LF is written as os.linesep
Untranslate(t, i) ==
    LET m == { j \in i..Len(t) : t[j] = LF }
    IN  IF m = {} THEN SubSeq(t, i, Len(t))
        ELSE SubSeq(t, i, Least(m) - 1) \o LineSep \o Untranslate(t, Least(m) + 1)

\* path.write_text(text): what is stored
WriteText(t) == Untranslate(t, 1)

(* ---------------- the three removals in the script's order ---------------- *)

\* lines 6, 7, 8 applied to the text read
Patch(t) == Replace(Replace(Replace(t, ImportLine), ConstLine), CallLine)

(* ---------------- the inputs ---------------- *)

\* the number of building blocks of the longest file: of a run without a
\* fault, of a run with any fault, of a run under fairness, of a run of SpecWide
MaxPieces == 4
MaxSmall == 3
MaxFair == 2
MaxWide == 5
\* where the import line is cut in two
SplitAt == 6

MainLine ==
    <<"f", "u", "n", "c", "t", "i", "o", "n", " ", "m", "a", "i", "n", "(", ")", " ", "{", LF>>
WorkLine ==
    <<" ", " ", " ", " ", "d", "o", "W", "o", "r", "k", "(", ")", LF>>
CloseLine == <<"}", LF>>
CrlfLine == <<"}", CR, LF>>

\* the import line cut in two: a head without its tail, a tail without its head
ImportHead == SubSeq(ImportLine, 1, SplitAt)
ImportTail == SubSeq(ImportLine, SplitAt + 1, Len(ImportLine))

\* the building blocks of a file: the three lines, the two halves, a line
\* the script has no business with, and a line that ends in CR LF
Pieces == <<ImportLine, ConstLine, CallLine, ImportHead, ImportTail, WorkLine, CrlfLine>>
NCore == Len(Pieces) - 2

RECURSIVE Join(_)
Join(ps) == IF ps = <<>> THEN <<>> ELSE Pieces[Head(ps)] \o Join(Tail(ps))

\* the files made of at most n of the first k building blocks
Joins(k, n) == { Join(ps) : ps \in UNION { [1..m -> 1..k] : m \in 0..n } }

\* the six-line file of the worked example, and its expected result
Scenario == ImportLine \o MainLine \o ConstLine \o WorkLine \o CallLine \o CloseLine
ScenarioResult == MainLine \o WorkLine \o CloseLine

\* the one-line file of the no-match example
NoMatchScenario ==
    <<"f", "u", "n", "c", "t", "i", "o", "n", " ", "m", "a", "i", "n", "(", ")", " ", "{",
      " ", "d", "o", "W", "o", "r", "k", "(", ")", " ", "}">>

Contents == Joins(NCore, MaxPieces) \cup {Scenario, NoMatchScenario}
SmallContents == Joins(Len(Pieces), MaxSmall)
FairContents == Joins(Len(Pieces), MaxFair)
WideContents == Joins(NCore, MaxWide) \cup {Scenario}

\* what can be wrong with the file: nothing, no read permission, no write
\* permission, no room left on the device
Faults == {"none", "unreadable", "readonly", "nospace"}

(* ---------------- the state ---------------- *)

VARIABLES
    pc,          \* the statement the script is about to run, or "done" / "failed"
    text,        \* the variable text of the script
    fileExists,  \* the path names a file
    fileContent, \* the characters stored in it
    fault,       \* what is wrong with the file
    stdout,      \* the lines printed
    orig,        \* history: the stored characters when the run started
    existed,     \* history: the path named a file when the run started
    nReads,      \* history: read attempts
    nWrites,     \* history: write attempts
    removed,     \* history: occurrences removed by each replace so far
    failedAt     \* history: the step whose failure ended the run

vars == <<pc, text, fileExists, fileContent, fault, stdout, orig, existed, nReads,
          nWrites, removed, failedAt>>

\* the state when the script starts, the path naming a file or not
Fresh(exists, stored, flt) ==
    /\ pc = "read"
    /\ text = <<>>
    /\ fileExists = exists
    /\ fileContent = stored
    /\ fault = flt
    /\ stdout = <<>>
    /\ orig = stored
    /\ existed = exists
    /\ nReads = 0
    /\ nWrites = 0
    /\ removed = <<>>
    /\ failedAt = "nowhere"

Init ==
    \/ \E c \in Contents : Fresh(TRUE, c, "none")
    \/ \E c \in SmallContents, f \in Faults : Fresh(TRUE, c, f)
    \/ Fresh(FALSE, <<>>, "none")

\* a read that takes a file it cannot open for an empty one and carries on
ReadCreates ==
    /\ pc = "read"
    /\ nReads' = nReads + 1
    /\ text' = IF fileExists /\ fault # "unreadable" THEN ReadText(fileContent) ELSE <<>>
    /\ pc' = "replace1"
    /\ UNCHANGED <<fileExists, fileContent, fault, stdout, orig, existed, nWrites, removed,
                   failedAt>>

\* line 4: text = path.read_text()
Read ==
    /\ pc = "read"
    /\ nReads' = nReads + 1
    /\ IF fileExists /\ fault # "unreadable"
       THEN /\ text' = ReadText(fileContent)
            /\ pc' = "replace1"
            /\ failedAt' = failedAt
       ELSE /\ text' = text
            /\ pc' = "failed"
            /\ failedAt' = "read"
    /\ UNCHANGED <<fileExists, fileContent, fault, stdout, orig, existed, nWrites, removed>>

\* a removal that saves the text to the file as it goes
RemoveInPlace(here, old, next) ==
    /\ pc = here
    /\ text' = Replace(text, old)
    /\ fileContent' = WriteText(text')
    /\ removed' = Append(removed, Count(text, old))
    /\ pc' = next
    /\ UNCHANGED <<fileExists, fault, stdout, orig, existed, nReads, nWrites, failedAt>>

\* lines 6-8: text = text.replace(<literal>, "")
Remove(here, old, next) ==
    /\ pc = here
    /\ text' = Replace(text, old)
    /\ removed' = Append(removed, Count(text, old))
    /\ pc' = next
    /\ UNCHANGED <<fileExists, fileContent, fault, stdout, orig, existed, nReads, nWrites,
                   failedAt>>

Remove1 == Remove("replace1", ImportLine, "replace2")
Remove2 == Remove("replace2", ConstLine, "replace3")
Remove3 == Remove("replace3", CallLine, "write")

\* what a write that runs out of room can leave behind: the file was
\* truncated when it was opened, and a part of the new content got through
Partial(new) == { SubSeq(new, 1, k) : k \in {0, Len(new) \div 2} }

\* a write whose failure is swallowed, so that the script goes on to print
WriteSwallowsError ==
    /\ pc = "write"
    /\ nWrites' = nWrites + 1
    /\ pc' = "print"
    /\ IF fault \in {"readonly", "nospace"}
       THEN /\ UNCHANGED <<fileExists, fileContent>>
            /\ failedAt' = "write"
       ELSE /\ fileExists' = TRUE
            /\ fileContent' = WriteText(text)
            /\ failedAt' = failedAt
    /\ UNCHANGED <<text, fault, stdout, orig, existed, nReads, removed>>

\* line 10: path.write_text(text)
Write ==
    /\ pc = "write"
    /\ nWrites' = nWrites + 1
    /\ CASE fault = "readonly" ->
              /\ UNCHANGED <<fileExists, fileContent>>
              /\ pc' = "failed"
              /\ failedAt' = "write"
         [] fault = "nospace" ->
              /\ fileExists' = TRUE
              /\ fileContent' \in Partial(WriteText(text))
              /\ pc' = "failed"
              /\ failedAt' = "write"
         [] OTHER ->
              /\ fileExists' = TRUE
              /\ fileContent' = WriteText(text)
              /\ pc' = "print"
              /\ failedAt' = failedAt
    /\ UNCHANGED <<text, fault, stdout, orig, existed, nReads, removed>>

\* line 11: print('updated index.ts')
Report ==
    /\ pc = "print"
    /\ stdout' = Append(stdout, Confirmation)
    /\ pc' = "done"
    /\ UNCHANGED <<text, fileExists, fileContent, fault, orig, existed, nReads, nWrites,
                   removed, failedAt>>

Next == Read \/ Remove1 \/ Remove2 \/ Remove3 \/ Write \/ Report

Spec == Init /\ [][Next]_vars

\* the interpreter runs the statements one after the other until the script ends
InitFair ==
    \/ \E c \in FairContents, f \in Faults : Fresh(TRUE, c, f)
    \/ Fresh(FALSE, <<>>, "none")

SpecFair == InitFair /\ [][Next]_vars /\ WF_vars(Next)

\* runs without a fault on longer files
InitWide == \E c \in WideContents : Fresh(TRUE, c, "none")

SpecWide == InitWide /\ [][Next]_vars

(* ---------------- vocabulary of the properties ---------------- *)

\* the text read_text returned at the start of the run
Text0 == ReadText(orig)

Lens == [n \in 1..3 |-> Len(Patterns[n])]

\* every occurrence of a pattern in t starts at the beginning of a line
LineAligned(t) ==
    \A n \in 1..3 : \A i \in MatchesFrom(t, Patterns[n], 1) : i = 1 \/ t[i - 1] = LF

\* the patterns that occur at position i of t
PatternsAt(t, i) == { n \in 1..3 : IsAt(t, Patterns[n], i) }

RECURSIVE OthersFrom(_, _)
\* t from position i on without the characters of its pattern occurrences
OthersFrom(t, i) ==
    LET m == { j \in i..Len(t) : PatternsAt(t, j) # {} }
    IN  IF m = {} THEN SubSeq(t, i, Len(t))
        ELSE LET j == Least(m)
                 n == CHOOSE k \in PatternsAt(t, j) : TRUE
             IN  SubSeq(t, i, j - 1) \o OthersFrom(t, j + Lens[n])

Others(t) == OthersFrom(t, 1)

RECURSIVE SubseqFrom(_, _, _, _)
\* a from i on can be read off b from j on, left to right: the common run is
\* matched, and at the first difference b is searched for the character a wants
SubseqFrom(a, i, b, j) ==
    LET n == IF Len(a) - i < Len(b) - j THEN Len(a) - i ELSE Len(b) - j
        d == { k \in 0..n : a[i + k] # b[j + k] }
    IN  IF d = {} THEN Len(a) - i <= Len(b) - j
        ELSE LET k == Least(d)
                 f == { m \in (j + k)..Len(b) : b[m] = a[i + k] }
             IN  f # {} /\ SubseqFrom(a, i + k, b, Least(f))

\* a is b with some characters deleted
IsSubseq(a, b) == SubseqFrom(a, 1, b, 1)

\* the six orders of the three removals
Orders == { o \in [1..3 -> 1..3] : \A a, b \in 1..3 : a # b => o[a] # o[b] }

ApplyOrder(o, t) ==
    Replace(Replace(Replace(t, Patterns[o[1]]), Patterns[o[2]]), Patterns[o[3]])

NoPatternIn(t) == \A n \in 1..3 : ~Occurs(t, Patterns[n])

Written == pc \in {"print", "done"}

TypeOK ==
    /\ pc \in {"read", "replace1", "replace2", "replace3", "write", "print", "done", "failed"}
    /\ fileExists \in BOOLEAN
    /\ fault \in Faults
    /\ nReads \in 0..1
    /\ nWrites \in 0..1
    /\ Len(removed) <= 3

(* ---------------- the properties ---------------- *)

\* C1 as stated: for every content, applying the three removals to the text
\* they produced changes nothing: patch(patch(C)) = patch(C)
C1_Idempotent ==
    pc = "write" => Patch(text) = text

\* C1 amended: patch(patch(C)) = patch(C) for every content C in which every
\* occurrence of a pattern starts at the beginning of a line
C1_IdempotentLineAligned ==
    (pc = "write" /\ LineAligned(Text0)) => Patch(text) = text

C1_Witness ==
    /\ pc = "write"
    /\ LineAligned(Text0)
    /\ \E n \in 1..3 : removed[n] > 1
    /\ text # <<>>

\* C2 as stated: when each of the three patterns occurs exactly once in the
\* content read, the content written back has no occurrence of a pattern and is
\* the content read without the characters of the three occurrences
C2_SelectiveRemoval ==
    (Written /\ \A n \in 1..3 : Count(Text0, Patterns[n]) = 1)
        => /\ NoPatternIn(fileContent)
           /\ fileContent = Others(Text0)

\* C2 amended: the same, for the contents in which moreover every occurrence
\* of a pattern starts at the beginning of a line
C2_SelectiveRemovalLineAligned ==
    (Written /\ LineAligned(Text0) /\ \A n \in 1..3 : Count(Text0, Patterns[n]) = 1)
        => /\ NoPatternIn(fileContent)
           /\ fileContent = Others(Text0)

C2_Witness ==
    /\ pc = "done"
    /\ LineAligned(Text0)
    /\ \A n \in 1..3 : Count(Text0, Patterns[n]) = 1
    /\ fileContent # <<>>
    /\ Len(fileContent) = Len(Text0) - (Lens[1] + Lens[2] + Lens[3])

\* C3: when none of the three patterns occurs in the file, the run leaves the
\* file as it was, fails only for a fault of the file, and prints the
\* confirmation line
C3_NoOpOnAbsence ==
    NoPatternIn(orig) =>
        /\ Written => fileContent = orig
        /\ pc = "done" => stdout = <<Confirmation>>
        /\ pc = "failed" => (fault # "none" \/ ~existed)

\* C4 as stated: removing all occurrences of one pattern from the text leaves
\* the number of occurrences of each other pattern unchanged
C4_NonInterference ==
    pc = "replace1" =>
        \A p, q \in 1..3 :
            p # q => Count(Replace(text, Patterns[p]), Patterns[q]) = Count(text, Patterns[q])

\* C4 amended: removing all occurrences of one pattern never lowers the number
\* of occurrences of another pattern, and leaves it unchanged when every
\* occurrence of a pattern in the text starts at the beginning of a line
C4_NeverDestroys ==
    pc = "replace1" =>
        \A aligned \in {LineAligned(text)} :
        \A q \in 1..3 : \A before \in {Count(text, Patterns[q])} :
        \A p \in 1..3 \ {q} : \A after \in {Count(Replace(text, Patterns[p]), Patterns[q])} :
            /\ after >= before
            /\ aligned => after = before

C4_Witness ==
    /\ pc = "replace1"
    /\ LineAligned(text)
    /\ \E p, q \in 1..3 : p # q /\ Occurs(text, Patterns[p]) /\ Occurs(text, Patterns[q])

\* C5: the run on the six-line file of the worked example does not fail and
\* ends with the three other lines in the file and the confirmation line, alone,
\* on standard output
C5_Scenario ==
    orig = Scenario =>
        /\ pc # "failed"
        /\ pc = "done" => (fileContent = ScenarioResult /\ stdout = <<Confirmation>>)

C5_Witness == orig = Scenario /\ pc = "done" /\ fileContent = ScenarioResult

\* C6: when the path names no file or the file cannot be read, the run ends
\* at the read step: nothing is written, the file is neither created nor
\* changed, and nothing is printed
C6_ReadFailure ==
    (~existed \/ fault = "unreadable") =>
        /\ pc \in {"read", "failed"}
        /\ pc = "failed" => failedAt = "read"
        /\ nWrites = 0
        /\ fileExists = existed
        /\ fileContent = orig
        /\ stdout = <<>>

C6_Witness == pc = "failed" /\ failedAt = "read" /\ ~existed /\ ~fileExists /\ nReads = 1

WriteSucceeded == nWrites = 1 /\ failedAt = "nowhere" /\ fileContent = WriteText(text)

\* C7: the confirmation line is printed at most once and only once the write
\* has succeeded; after a failed write nothing is ever printed; and once the
\* write has succeeded the line is eventually printed and the run ends
C7_ReportOrdering ==
    /\ [][stdout' # stdout =>
            /\ stdout = <<>>
            /\ stdout' = <<Confirmation>>
            /\ WriteSucceeded]_vars
    /\ [](failedAt = "write" => stdout = <<>>)
    /\ [][failedAt = "write" => failedAt' = "write"]_vars
    /\ ((nWrites = 1 /\ failedAt = "nowhere") ~> (pc = "done" /\ stdout = <<Confirmation>>))

C7_Witness == pc = "done" /\ stdout = <<Confirmation>> /\ WriteSucceeded

\* the steps of the script in the order of its lines
Order ==
    { <<"read", "replace1">>, <<"replace1", "replace2">>, <<"replace2", "replace3">>,
      <<"replace3", "write">>, <<"write", "print">>, <<"print", "done">>,
      <<"read", "failed">>, <<"write", "failed">> }

InOrder == <<pc, pc'>> \in Order

\* C8: a run goes through read, the three removals, write and report in this
\* order, without a branch back or a retry; the file is read once and written
\* at most once, the three removals are done when the write starts, and until
\* the write the file holds what it held when the run started
C8_StepOrdering ==
    /\ [][InOrder]_vars
    /\ [][nReads' # nReads => (pc = "read" /\ nReads = 0)]_vars
    /\ [][nWrites' # nWrites => (pc = "write" /\ nWrites = 0)]_vars
    /\ [][fileContent' # fileContent => nWrites' = 1]_vars
    /\ [](pc # "read" => nReads = 1)
    /\ [](nWrites = 0 => (fileContent = orig /\ fileExists = existed))
    /\ [](pc = "write" => (Len(removed) = 3 /\ text = Patch(Text0)))

C8_Witness == pc = "done" /\ nReads = 1 /\ nWrites = 1 /\ Len(removed) = 3 /\ fileContent # orig

\* C9 as stated: for every content, each of the six orders of the three
\* removals gives the text the script's order gives
C9_OrderIndependent ==
    pc = "write" => \A t \in {Text0} : \A o \in Orders : ApplyOrder(o, t) = text

\* C9 amended: the six orders agree with the script's order when every
\* occurrence of a pattern in the text read starts at the beginning of a line
C9_OrderIndependentLineAligned ==
    pc = "write" =>
        \A t \in {Text0} : LineAligned(t) => \A o \in Orders : ApplyOrder(o, t) = text

C9_Witness ==
    /\ pc = "write"
    /\ LineAligned(Text0)
    /\ \A n \in 1..3 : removed[n] > 0
    /\ text # <<>>

\* C10: the content written back is the content the removals started from with
\* characters deleted and none inserted or changed: a subsequence of it, no
\* longer than it, and shorter by a * len(P1) + b * len(P2) + c * len(P3) for
\* the numbers a, b, c of occurrences the three steps removed
C10_DeletionOnly ==
    Written =>
        \A t \in {Text0} :
            /\ IsSubseq(fileContent, t)
            /\ Len(fileContent) <= Len(t)
            /\ Len(t) - Len(fileContent)
                   = removed[1] * Lens[1] + removed[2] * Lens[2] + removed[3] * Lens[3]

C10_Witness ==
    /\ pc = "done"
    /\ \A n \in 1..3 : removed[n] > 0
    /\ fileContent # <<>>
    /\ Len(fileContent) < Len(Text0)

====
